---- MODULE Spec2Model ----
(***************************************************************************)
(* A model of tempodb/wal/append_block.go: one append-only WAL block, its  *)
(* data file, its file handles, the replay of a data file into a block,    *)
(* and the file-name scheme that carries the block's metadata.             *)
(*                                                                         *)
(* Strings are sequences of atoms: the atom ":" is the separator of the    *)
(* file-name scheme, any other atom is one rune that is not ':'.  A UUID   *)
(* prints as two atoms, <<"uuid", d>>.  Identifiers and payloads are       *)
(* sequences of bytes (small naturals).                                    *)
(***************************************************************************)
EXTENDS Naturals, Sequences, FiniteSets, TLC

(***************************************************************************)
(* Bounds of the model.                                                    *)
(***************************************************************************)
MaxWrites == 3
MaxPages == 2
NumReaders == 2

(***************************************************************************)
(* Program constants.                                                      *)
(***************************************************************************)
maxDataEncodingLength == 32

\* Sizes of the page and object framing of the page codec.
PageHeaderLen == 6
ObjHeaderLen == 8

(***************************************************************************)
(* Errors.  Nil is Go's nil error.                                         *)
(***************************************************************************)
Nil == "nil"
EOF == "EOF"
ErrUnexpectedEOF == "unexpected EOF"
ErrCorrupt == "corrupt object"
ErrNotExist == "no such file"
ErrClosed == "file already closed"
ErrInvalid == "invalid argument"
ErrIO == "input/output error"
ErrUnsupported == "unsupported"
ErrDataEncoding == "dataEncoding is invalid"
ErrSegments == "unexpected number of segments"
ErrUUID == "error parsing uuid"
ErrEncoding == "error parsing encoding"
ErrMissing == "missing fields"
ErrVersion == "not a valid block version"

(***************************************************************************)
(* Strings.                                                                *)
(***************************************************************************)
Rep(c, n) == [i \in 1..n |-> c]

\* The number of runes of a string: one atom is one rune.
RuneLen(s) == Len(s)

ContainsRune(s, c) == \E i \in 1..Len(s) : s[i] = c

\* strings.Split(s, ":"): acc holds the finished fields, cur the field being read.
RECURSIVE SplitAcc(_, _, _)
SplitAcc(s, cur, acc) ==
    IF s = <<>> THEN Append(acc, cur)
    ELSE IF Head(s) = ":" THEN SplitAcc(Tail(s), <<>>, Append(acc, cur))
    ELSE SplitAcc(Tail(s), Append(cur, Head(s)), acc)

Split(s) == SplitAcc(s, <<>>, <<>>)

\* fmt.Sprintf("%v:%v:...", f1, f2, ...)
RECURSIVE JoinColon(_)
JoinColon(fields) ==
    IF Len(fields) = 1 THEN fields[1]
    ELSE fields[1] \o <<":">> \o JoinColon(Tail(fields))

(***************************************************************************)
(* UUIDs and encodings.                                                    *)
(***************************************************************************)
UUIDs == {1, 2}
ZeroUUID == 0
Digit(u) == IF u = 0 THEN "0" ELSE IF u = 1 THEN "1" ELSE "2"

\* uuid.UUID.String()
UUIDString(u) == <<"uuid", Digit(u)>>

\* uuid.Parse: [id, err]
UUIDParse(s) ==
    IF \E u \in UUIDs \cup {ZeroUUID} : UUIDString(u) = s
    THEN [id |-> CHOOSE u \in UUIDs \cup {ZeroUUID} : UUIDString(u) = s, err |-> Nil]
    ELSE [id |-> ZeroUUID, err |-> ErrUUID]

\* backend.Encoding: the supported page encodings, EncNone the zero value.
EncNone == "none"
SupportedEncodings == {"none", "gzip", "snappy"}

\* backend.Encoding.String()
EncString(e) == <<e>>

\* backend.ParseEncoding: [enc, err]
ParseEncoding(s) ==
    IF \E e \in SupportedEncodings : EncString(e) = s
    THEN [enc |-> CHOOSE e \in SupportedEncodings : EncString(e) = s, err |-> Nil]
    ELSE [enc |-> EncNone, err |-> ErrEncoding]

\* encoding.FromVersion: the versions that have an encoding.
V0 == <<"v0">>
V2 == <<"v2">>
SupportedVersions == {V0, <<"v1">>, V2}
FromVersion(v) == IF v \in SupportedVersions THEN Nil ELSE ErrVersion

(***************************************************************************)
(* BlockMeta and the file name.                                            *)
(***************************************************************************)
\* backend.NewBlockMeta
NewBlockMeta(tenantID, blockID, version, e, dataEncoding) ==
    [TenantID |-> tenantID, BlockID |-> blockID, Version |-> version,
     Encoding |-> e, DataEncoding |-> dataEncoding, TotalObjects |-> 0,
     MinID |-> <<>>, MaxID |-> <<>>]

\* AppendBlock.fullFilename, the base name (the directory a.filepath is fixed).
fullFilename(m) ==
    IF m.Version = V0
    THEN JoinColon(<<UUIDString(m.BlockID), m.TenantID>>)
    ELSE IF m.DataEncoding = <<>>
    THEN JoinColon(<<UUIDString(m.BlockID), m.TenantID, m.Version, EncString(m.Encoding)>>)
    ELSE JoinColon(<<UUIDString(m.BlockID), m.TenantID, m.Version, EncString(m.Encoding),
                     m.DataEncoding>>)

\* What parseFilename returns on an error.
ParseError(e) ==
    [blockID |-> ZeroUUID, tenantID |-> <<>>, version |-> <<>>, encoding |-> EncNone,
     dataEncoding |-> <<>>, err |-> e]

\* The accepted numbers of fields.
ArityOK(n) == n = 2 \/ n = 4 \/ n = 5

\* A fault: an empty version is let through.
FieldsMissing_TenantOnly(tenantID, version) == Len(tenantID) = 0

\* The check for missing fields.
FieldsMissing(tenantID, version) == Len(tenantID) = 0 \/ Len(version) = 0

\* parseFilename
parseFilename(name) ==
    LET splits == Split(name) IN
    IF ~ArityOK(Len(splits)) THEN ParseError(ErrSegments)
    ELSE
      LET blockIDString == splits[1]
          tenantID == splits[2]
          version == IF Len(splits) >= 4 THEN splits[3] ELSE V0
          encodingString == IF Len(splits) >= 4 THEN splits[4] ELSE EncString(EncNone)
          dataEncoding == IF Len(splits) >= 5 THEN splits[5] ELSE <<>>
          id == UUIDParse(blockIDString)
          enc == ParseEncoding(encodingString)
      IN  IF id.err # Nil THEN ParseError(ErrUUID)
          ELSE IF enc.err # Nil THEN ParseError(ErrEncoding)
          ELSE IF FieldsMissing(tenantID, version) THEN ParseError(ErrMissing)
          ELSE [blockID |-> id.id, tenantID |-> tenantID, version |-> version,
                encoding |-> enc.enc, dataEncoding |-> dataEncoding, err |-> Nil]

\* The check of newAppendBlock on its dataEncoding.
DataEncodingInvalid(dataEncoding) ==
    \/ ContainsRune(dataEncoding, ":")
    \/ RuneLen(dataEncoding) > maxDataEncodingLength

(***************************************************************************)
(* Identifiers, payloads, pages, files.                                    *)
(***************************************************************************)
IDs == {<<1>>, <<1, 2>>, <<2>>}

\* The payload of the k-th object written: distinct payloads of distinct lengths.
Payload(k) == [i \in 1..k |-> k]

\* bytes.Compare(a, b) < 0
RECURSIVE BytesLess(_, _)
BytesLess(a, b) ==
    IF b = <<>> THEN FALSE
    ELSE IF a = <<>> THEN TRUE
    ELSE IF Head(a) # Head(b) THEN Head(a) < Head(b)
    ELSE BytesLess(Tail(a), Tail(b))

\* The caller's merge function: concatenation, the earlier payload first.
Combine(a, b) == a \o b

Object(id, data) == [id |-> id, data |-> data]
ObjLen(o) == ObjHeaderLen + Len(o.id) + Len(o.data)

RECURSIVE ObjsLen(_)
ObjsLen(objs) == IF objs = <<>> THEN 0 ELSE ObjLen(Head(objs)) + ObjsLen(Tail(objs))

\* A page: its objects, and the number of bytes after them that decode as no object.
Page(objs, junk) == [objs |-> objs, junk |-> junk]
PageLen(p) == PageHeaderLen + ObjsLen(p.objs) + p.junk

\* A data file: its complete pages, and the bytes of an incomplete page after them.
File(pages, tail) == [pages |-> pages, tail |-> tail]
EmptyFile == File(<<>>, 0)

\* The offset of the k-th page of a file.
RECURSIVE OffsetOf(_, _)
OffsetOf(f, k) == IF k <= 1 THEN 0 ELSE OffsetOf(f, k - 1) + PageLen(f.pages[k - 1])

(***************************************************************************)
(* The page codec.                                                         *)
(***************************************************************************)
\* DataReader.NextPage, reading the k-th page of the stream.
NextPage(f, k) ==
    IF k <= Len(f.pages)
    THEN [page |-> f.pages[k], pageLen |-> PageLen(f.pages[k]), err |-> Nil]
    ELSE IF f.tail > 0
    THEN [page |-> Page(<<>>, 0), pageLen |-> 0, err |-> ErrUnexpectedEOF]
    ELSE [page |-> Page(<<>>, 0), pageLen |-> 0, err |-> EOF]

\* ObjectReaderWriter.UnmarshalObjectFromReader, the j-th call on a page's reader.
UnmarshalObjectFromReader(p, j) ==
    IF j <= Len(p.objs)
    THEN [id |-> p.objs[j].id, data |-> p.objs[j].data, err |-> Nil]
    ELSE IF j = Len(p.objs) + 1 /\ p.junk > 0
    THEN [id |-> <<>>, data |-> <<>>, err |-> ErrCorrupt]
    ELSE [id |-> <<>>, data |-> <<>>, err |-> EOF]

(***************************************************************************)
(* Records.                                                                *)
(***************************************************************************)
Record(id, start, length) == [ID |-> id, Start |-> start, Length |-> length]

\* One step of a stable sort: r goes after every record whose ID is not greater.
RECURSIVE InsertSorted(_, _)
InsertSorted(rs, r) ==
    IF rs = <<>> THEN <<r>>
    ELSE IF BytesLess(r.ID, Head(rs).ID) THEN <<r>> \o rs
    ELSE <<Head(rs)>> \o InsertSorted(Tail(rs), r)

\* common.SortRecords: a stable sort on the identifier.
RECURSIVE SortRecords(_)
SortRecords(rs) ==
    IF rs = <<>> THEN <<>>
    ELSE InsertSorted(SortRecords(SubSeq(rs, 1, Len(rs) - 1)), rs[Len(rs)])

(***************************************************************************)
(* The state: the disk, the process's file handles, and one AppendBlock.   *)
(***************************************************************************)
VARIABLES
    disk,        \* file name -> File, the data files that exist
    handles,     \* the handles the process has opened: [name, mode, open]
    phase,       \* "init": no constructor called; "live": a block; "failed": none
    meta,        \* a.meta
    appendFile,  \* a.appendFile: a handle, 0 for nil
    readFile,    \* a.readFile: a handle, 0 for nil
    onceDone,    \* a.once has run
    appender,    \* a.appender: [mode, records, offset, h]
    iter,        \* the iterator GetIterator returned last
    res,         \* what the last call returned
    written,     \* the (id, payload) pairs of the Write calls that returned nil
    replayed,    \* the File newAppendBlockFromFile walked
    onceM,       \* a.once's mutex: the reader holding it, 0 for none
    pc,          \* each concurrent reader's position
    ret          \* what file() returned to each concurrent reader

vars == <<disk, handles, phase, meta, appendFile, readFile, onceDone, appender, iter,
          res, written, replayed, onceM, pc, ret>>

blockVars == <<phase, meta, appendFile, readFile, onceDone, appender>>
readerVars == <<onceM, pc, ret>>

NoMeta == NewBlockMeta(<<>>, ZeroUUID, <<>>, EncNone, <<>>)
NoAppender == [mode |-> "none", records |-> <<>>, offset |-> 0, h |-> 0]
NoIter ==
    [state |-> "none", recs |-> <<>>, pos |-> 1, h |-> 0, out |-> <<>>, err |-> Nil,
     dedup |-> FALSE]
NoRes == [op |-> "none", err |-> Nil]
Readers == 1..NumReaders
NoRet == [rf |-> 0, err |-> Nil, ran |-> FALSE]

(***************************************************************************)
(* Files and handles.                                                      *)
(***************************************************************************)
Exists(name) == name \in DOMAIN disk

IsOpen(h) == h \in 1..Len(handles) /\ handles[h].open

\* A new handle on name.
Opened(name, mode) == Append(handles, [name |-> name, mode |-> mode, open |-> TRUE])

\* os.OpenFile(name, os.O_RDONLY, 0644): the error.
OpenReadErr(name) == IF Exists(name) THEN Nil ELSE ErrNotExist

\* (*os.File).Close: the error, for a handle h and an I/O failure of the close.
CloseErr(h, ioFail) ==
    IF h = 0 THEN ErrInvalid
    ELSE IF ~handles[h].open THEN ErrClosed
    ELSE IF ioFail THEN ErrIO
    ELSE Nil

\* (*os.File).Close: the handles after it (the descriptor is released even on an I/O error).
Closed(hs, h) == IF h = 0 THEN hs ELSE [hs EXCEPT ![h].open = FALSE]

\* os.Remove(name): the error.
RemoveErr(name, ioFail) ==
    IF ~Exists(name) THEN ErrNotExist
    ELSE IF ioFail THEN ErrIO
    ELSE Nil

Removed(d, name) == [n \in DOMAIN d \ {name} |-> d[n]]

\* The page read through handle h of handles hs at a record's place: [page, err].
ReadPage(hs, h, r) ==
    IF h = 0 THEN [page |-> Page(<<>>, 0), err |-> ErrInvalid]
    ELSE IF ~hs[h].open THEN [page |-> Page(<<>>, 0), err |-> ErrClosed]
    ELSE LET f == disk[hs[h].name]
             ks == {k \in 1..Len(f.pages) :
                       OffsetOf(f, k) = r.Start /\ PageLen(f.pages[k]) = r.Length}
         IN  IF ks = {} THEN [page |-> Page(<<>>, 0), err |-> ErrUnexpectedEOF]
             ELSE [page |-> f.pages[CHOOSE k \in ks : TRUE], err |-> Nil]

(***************************************************************************)
(* The Appender.                                                           *)
(***************************************************************************)
\* encoding.NewAppender(dataWriter): write mode, on the handle the writer wraps.
NewAppender(h) == [mode |-> "write", records |-> <<>>, offset |-> 0, h |-> h]

\* encoding.NewRecordAppender(records): replay mode, no stream.
NewRecordAppender(records) ==
    [mode |-> "replay", records |-> records, offset |-> 0, h |-> 0]

\* Appender.Append: the error.
AppendErr(ap, ioFail) ==
    IF ap.mode # "write" THEN ErrUnsupported
    ELSE IF ~IsOpen(ap.h) THEN ErrClosed
    ELSE IF ioFail THEN ErrIO
    ELSE Nil

\* Appender.Append, when it succeeds: the page is written, the record added.
Appended(ap, id, b) ==
    LET len == PageLen(Page(<<Object(id, b)>>, 0)) IN
    [ap EXCEPT !.records = Append(@, Record(id, ap.offset, len)),
               !.offset = @ + len]

\* Appender.Records: the index, sorted.
Records(ap) == SortRecords(ap.records)

\* Appender.RecordsForID
RecordsForID(ap, id) == SelectSeq(Records(ap), LAMBDA r : r.ID = id)

\* Appender.Length
Length(ap) == Len(ap.records)

\* BlockMeta.ObjectAdded: the count, and the least and greatest identifier seen.
ObjectAdded(m, id) ==
    [m EXCEPT !.TotalObjects = @ + 1,
              !.MinID = IF @ = <<>> \/ BytesLess(id, @) THEN id ELSE @,
              !.MaxID = IF @ = <<>> \/ BytesLess(@, id) THEN id ELSE @]

(***************************************************************************)
(* AppendBlock.file: the read handle, opened once.                         *)
(***************************************************************************)
\* The function file() hands to a.once.Do, run on handles hs for the block's file name:
\* the new a.readFile, the handles, and the error file() will return.
OpenRead(hs, rf, name) ==
    IF rf # 0 THEN [rf |-> rf, hs |-> hs, err |-> Nil]
    ELSE IF OpenReadErr(name) = Nil
    THEN [rf |-> Len(hs) + 1,
          hs |-> Append(hs, [name |-> name, mode |-> "r", open |-> TRUE]),
          err |-> Nil]
    ELSE [rf |-> 0, hs |-> hs, err |-> OpenReadErr(name)]

\* file(), called by one caller at a time: a.once.Do runs the function the first time only.
file(hs, done, rf, name) ==
    IF done THEN [rf |-> rf, hs |-> hs, err |-> Nil] ELSE OpenRead(hs, rf, name)

(***************************************************************************)
(* newAppendBlock                                                          *)
(***************************************************************************)
\* The arguments callers pass: <<tenantID, e, dataEncoding>>.
NewArgs ==
    {<<<<"t">>, "none", <<>>>>,
     <<<<"t">>, "snappy", Rep("a", maxDataEncodingLength)>>,
     <<<<"t">>, "none", Rep("a", maxDataEncodingLength + 1)>>,
     <<<<"t">>, "none", <<"a", ":", "b">>>>,
     <<<<>>, "none", <<>>>>}

EmptyDisk == [n \in {} |-> EmptyFile]

\* What a constructor returned: the error, the warning, whether a block came back; and
\* the call's file name or dataEncoding, and the step of the constructor that returned.
NewResult(op, arg, stage, err, warning, block) ==
    [op |-> op, arg |-> arg, stage |-> stage, err |-> err, warning |-> warning,
     block |-> block]

\* newAppendBlock(id, tenantID, filepath, e, dataEncoding); dwFail: NewDataWriter fails.
\* The block's file name is new: the disk holds no file of another block.
NewAppendBlock(id, tenantID, e, dataEncoding, dwFail) ==
    /\ phase = "init"
    /\ disk = EmptyDisk
    /\ UNCHANGED <<iter, written, replayed, readerVars, readFile, onceDone>>
    /\ IF DataEncodingInvalid(dataEncoding)
       THEN /\ phase' = "failed"
            /\ res' = NewResult("newAppendBlock", dataEncoding, "validate",
                              ErrDataEncoding, Nil, FALSE)
            /\ UNCHANGED <<disk, handles, meta, appendFile, appender>>
       ELSE LET m == NewBlockMeta(tenantID, id, V2, e, dataEncoding)
                name == fullFilename(m)
                f == Len(handles) + 1
            IN  /\ disk' = (name :> EmptyFile)
                /\ handles' = Opened(name, "w")
                /\ IF dwFail
                   THEN /\ phase' = "failed"
                        /\ res' = NewResult("newAppendBlock", dataEncoding, "writer",
                                          ErrEncoding, Nil, FALSE)
                        /\ UNCHANGED <<meta, appendFile, appender>>
                   ELSE /\ phase' = "live"
                        /\ meta' = m
                        /\ appendFile' = f
                        /\ appender' = NewAppender(f)
                        /\ res' = NewResult("newAppendBlock", dataEncoding, "done",
                                          Nil, Nil, TRUE)

(***************************************************************************)
(* newAppendBlockFromFile                                                  *)
(***************************************************************************)
\* A fault: every error of NextPage ends the walk without a warning.
IsEndOfStream_AnyError(err) == err # Nil

\* Whether the walk ends without a warning on this error of NextPage.
IsEndOfStream(err) == err = EOF

\* The warning the walk keeps when the second object of a page decodes to err.
SecondObjectWarning(err) == err

\* The records with the page added, and the offset after the page.
AddRecord(records, id, currentOffset, pageLen) ==
    Append(records, Record(id, currentOffset, pageLen))

\* A fault: the running offset is not advanced.
NextOffset_Stuck(currentOffset, pageLen) == currentOffset

\* The running offset of the walk after a page.
NextOffset(currentOffset, pageLen) == currentOffset + pageLen

\* The walk of the pages from the k-th on: [records, warning].
RECURSIVE Walk(_, _, _, _)
Walk(f, k, currentOffset, records) ==
    LET np == NextPage(f, k) IN
    IF IsEndOfStream(np.err) THEN [records |-> records, warning |-> Nil]
    ELSE IF np.err # Nil THEN [records |-> records, warning |-> np.err]
    ELSE
      LET o1 == UnmarshalObjectFromReader(np.page, 1)
          o2 == UnmarshalObjectFromReader(np.page, 2)
      IN  IF o1.err # Nil THEN [records |-> records, warning |-> o1.err]
          ELSE IF o2.err # EOF
          THEN [records |-> records, warning |-> SecondObjectWarning(o2.err)]
          ELSE Walk(f, k + 1, NextOffset(currentOffset, np.pageLen),
                    AddRecord(records, o1.id, currentOffset, np.pageLen))

\* A fault: the object count is left as NewBlockMeta made it.
ReplayTotalObjects_Zero(ap) == 0

\* The object count newAppendBlockFromFile sets.
ReplayTotalObjects(ap) == Length(ap)

\* A fault: the warning is returned as the fatal error too.
ReplayFatal_Warning(warning) == warning

\* The fatal error newAppendBlockFromFile returns after the walk.
ReplayFatal(warning) == Nil

\* newAppendBlockFromFile(filename, path); drFail: NewDataReader fails.
NewAppendBlockFromFile(filename, drFail) ==
    /\ phase = "init"
    /\ UNCHANGED <<disk, iter, written, readerVars, appendFile>>
    /\ LET p == parseFilename(filename)
           m == NewBlockMeta(p.tenantID, p.blockID, p.version, p.encoding, p.dataEncoding)
           name == fullFilename(m)
           f == file(handles, FALSE, 0, name)
           stage == IF p.err # Nil THEN "parse"
                    ELSE IF FromVersion(p.version) # Nil THEN "version"
                    ELSE IF f.err # Nil THEN "open"
                    ELSE IF drFail THEN "reader"
                    ELSE "walk"
           early == IF stage = "parse" THEN p.err
                    ELSE IF stage = "version" THEN FromVersion(p.version)
                    ELSE IF stage = "open" THEN f.err
                    ELSE ErrIO
       IN  /\ handles' = IF stage \in {"parse", "version"} THEN handles ELSE f.hs
           /\ IF stage # "walk"
              THEN /\ phase' = "failed"
                   /\ res' = NewResult("newAppendBlockFromFile", filename, stage, early, Nil,
                                       FALSE)
                   /\ UNCHANGED <<meta, readFile, onceDone, appender, replayed>>
              ELSE LET w == Walk(disk[name], 1, 0, <<>>)
                       ap == NewRecordAppender(SortRecords(w.records))
                   IN  /\ phase' = "live"
                       /\ meta' = [m EXCEPT !.TotalObjects = ReplayTotalObjects(ap)]
                       /\ readFile' = f.rf
                       /\ onceDone' = TRUE
                       /\ appender' = ap
                       /\ replayed' = disk[name]
                       /\ res' = NewResult("newAppendBlockFromFile", filename, stage,
                                           ReplayFatal(w.warning), w.warning, TRUE)

(***************************************************************************)
(* Write                                                                   *)
(***************************************************************************)
\* The data file with a page written through handle h.
PageWritten(h, p) ==
    [disk EXCEPT ![handles[h].name] = File(Append(@.pages, p), @.tail)]

\* A fault: the BlockMeta is advanced whatever Append returned.
MetaAfterWrite_Always(m, id, err) == ObjectAdded(m, id)

\* The BlockMeta after Write, given what Append returned.
MetaAfterWrite(m, id, err) == IF err # Nil THEN m ELSE ObjectAdded(m, id)

\* A fault: Write returns nil whatever Append returned.
WriteReturn_Nil(err) == Nil

\* What Write returns, given what Append returned.
WriteReturn(err) == err

\* What Write returned; appendErr: what Append returned.
WriteResult(id, err, appendErr) ==
    [op |-> "Write", id |-> id, err |-> err, appendErr |-> appendErr]

\* Write(id, b), b the payload of the next object; ioFail: the write to the file fails.
Write(id, ioFail) ==
    /\ phase = "live"
    /\ Len(written) < MaxWrites
    /\ UNCHANGED <<handles, phase, appendFile, readFile, onceDone, iter, replayed, readerVars>>
    /\ LET b == Payload(Len(written) + 1)
           err == AppendErr(appender, ioFail)
       IN  IF err # Nil
           THEN /\ res' = WriteResult(id, WriteReturn(err), err)
                /\ meta' = MetaAfterWrite(meta, id, err)
                /\ UNCHANGED <<disk, appender, written>>
           ELSE /\ disk' = PageWritten(appender.h, Page(<<Object(id, b)>>, 0))
                /\ appender' = Appended(appender, id, b)
                /\ meta' = MetaAfterWrite(meta, id, err)
                /\ written' = Append(written, Object(id, b))
                /\ res' = WriteResult(id, WriteReturn(err), err)

(***************************************************************************)
(* GetIterator and the iterator it returns                                 *)
(***************************************************************************)
\* encoding.NewRecordIterator over the records, reading through handle h.
NewRecordIterator(records, h) ==
    [state |-> "open", recs |-> records, pos |-> 1, h |-> h, out |-> <<>>, err |-> Nil,
     dedup |-> FALSE]

\* encoding.NewDedupingIterator around an iterator.
NewDedupingIterator(it) == [it EXCEPT !.dedup = TRUE]

\* A fault: the record iterator is returned without the deduplication around it.
BuildIterator_NoDedup(records, h) == NewRecordIterator(records, h)

\* The iterator GetIterator builds from the records and the read handle.
BuildIterator(records, h) == NewDedupingIterator(NewRecordIterator(records, h))

\* The records GetIterator iterates over.
IteratorRecords(ap) == Records(ap)

\* The block holds no handle: of a block that a constructor returned, only after Clear.
Cleared == appendFile = 0 /\ readFile = 0

\* What GetIterator returned; closeErr: what closing the write handle returned; called:
\* file() was called, and returned handle rf and error fileErr; cleared: the block held
\* no handle when GetIterator was called.
IterResult(err, closeErr, called, rf, fileErr) ==
    [op |-> "GetIterator", err |-> err, closeErr |-> closeErr, called |-> called,
     rf |-> rf, fileErr |-> fileErr, cleared |-> Cleared]

\* GetIterator(combiner); closeFail: closing the write handle fails on I/O;
\* drFail: NewDataReader fails.
GetIterator(closeFail, drFail) ==
    /\ phase = "live"
    /\ UNCHANGED <<disk, phase, meta, appender, written, replayed, readerVars>>
    /\ LET closeErr == IF appendFile # 0 THEN CloseErr(appendFile, closeFail) ELSE Nil
           hs1 == Closed(handles, appendFile)
           f == file(hs1, onceDone, readFile, fullFilename(meta))
       IN  IF closeErr # Nil
           THEN /\ handles' = hs1
                /\ res' = IterResult(closeErr, closeErr, FALSE, 0, Nil)
                /\ UNCHANGED <<appendFile, readFile, onceDone, iter>>
           ELSE /\ appendFile' = 0
                /\ handles' = f.hs
                /\ readFile' = f.rf
                /\ onceDone' = TRUE
                /\ IF f.err # Nil
                   THEN /\ res' = IterResult(f.err, closeErr, TRUE, f.rf, f.err)
                        /\ UNCHANGED iter
                   ELSE IF drFail
                   THEN /\ res' = IterResult(ErrIO, closeErr, TRUE, f.rf, f.err)
                        /\ UNCHANGED iter
                   ELSE /\ iter' = BuildIterator(IteratorRecords(appender), f.rf)
                        /\ res' = IterResult(Nil, closeErr, TRUE, f.rf, f.err)

\* The number of records from pos on that the next step of the iterator consumes:
\* one, or with deduplication the run of records that share the identifier.
RECURSIVE RunLen(_, _, _)
RunLen(recs, pos, dedup) ==
    IF dedup /\ pos < Len(recs) /\ recs[pos + 1].ID = recs[pos].ID
    THEN 1 + RunLen(recs, pos + 1, dedup)
    ELSE 1

\* The pages of records recs[from..to] read through handle h of hs and merged: [data, err].
RECURSIVE ReadMerged(_, _, _, _, _)
ReadMerged(hs, h, recs, from, to) ==
    LET pg == ReadPage(hs, h, recs[to])
        o == UnmarshalObjectFromReader(pg.page, 1)
    IN  IF from > to THEN [data |-> <<>>, err |-> Nil]
        ELSE IF from = to
        THEN IF pg.err # Nil THEN [data |-> <<>>, err |-> pg.err]
             ELSE [data |-> o.data, err |-> o.err]
        ELSE LET before == ReadMerged(hs, h, recs, from, to - 1) IN
             IF before.err # Nil THEN before
             ELSE IF pg.err # Nil THEN [data |-> <<>>, err |-> pg.err]
             ELSE IF o.err # Nil THEN [data |-> <<>>, err |-> o.err]
             ELSE [data |-> Combine(before.data, o.data), err |-> Nil]

\* Iterator.Next
IterNext ==
    /\ iter.state = "open"
    /\ UNCHANGED <<disk, handles, blockVars, res, written, replayed, readerVars>>
    /\ IF iter.pos > Len(iter.recs)
       THEN iter' = [iter EXCEPT !.state = "done"]
       ELSE LET n == RunLen(iter.recs, iter.pos, iter.dedup)
                m == ReadMerged(handles, iter.h, iter.recs, iter.pos, iter.pos + n - 1)
            IN  IF m.err # Nil
                THEN iter' = [iter EXCEPT !.state = "error", !.err = m.err]
                ELSE iter' = [iter EXCEPT
                                !.out = Append(@, Object(iter.recs[iter.pos].ID, m.data)),
                                !.pos = @ + n]

(***************************************************************************)
(* Find                                                                    *)
(***************************************************************************)
\* What Find returned for id; first: the call was the one to run a.once; existed: the
\* data file existed when it was called; file() returned handle rf and error fileErr;
\* n: the number of records of id; cleared: the block held no handle when Find was called.
FindResult(id, data, err, f, n) ==
    [op |-> "Find", id |-> id, data |-> data, err |-> err, first |-> ~onceDone,
     existed |-> Exists(fullFilename(meta)), called |-> TRUE, rf |-> f.rf,
     fileErr |-> f.err, n |-> n, cleared |-> Cleared]

\* A fault: Find reads the pages of every record of the block.
FindRecords_All(ap, id) == Records(ap)

\* The records Find reads for id.
FindRecords(ap, id) == RecordsForID(ap, id)

\* A fault: Find goes on to read when there is no record.
NoRecords_Never(records) == FALSE

\* Whether Find has no record to read.
NoRecords(records) == Len(records) = 0

\* Find(id, combiner); drFail: NewDataReader fails.  data <<>> is the nil result.
Find(id, drFail) ==
    /\ phase = "live"
    /\ UNCHANGED <<disk, phase, meta, appendFile, appender, iter, written, replayed,
                   readerVars>>
    /\ LET records == FindRecords(appender, id)
           n == Len(records)
           f == file(handles, onceDone, readFile, fullFilename(meta))
       IN  /\ handles' = f.hs
           /\ readFile' = f.rf
           /\ onceDone' = TRUE
           /\ IF f.err # Nil THEN res' = FindResult(id, <<>>, f.err, f, n)
              ELSE IF NoRecords(records) THEN res' = FindResult(id, <<>>, Nil, f, n)
              ELSE IF drFail THEN res' = FindResult(id, <<>>, ErrIO, f, n)
              ELSE LET m == ReadMerged(f.hs, f.rf, records, 1, Len(records)) IN
                   res' = FindResult(id, m.data, m.err, f, n)

(***************************************************************************)
(* Clear                                                                   *)
(***************************************************************************)
\* A fault: Clear returns the first error of its steps.
ClearReturn_FirstError(closeReadErr, closeAppendErr, completeErr, removeErr) ==
    IF closeReadErr # Nil THEN closeReadErr
    ELSE IF closeAppendErr # Nil THEN closeAppendErr
    ELSE IF completeErr # Nil THEN completeErr
    ELSE removeErr

\* What Clear returns, given the errors of its four steps.
ClearReturn(closeReadErr, closeAppendErr, completeErr, removeErr) == removeErr

\* Clear(); rcFail, acFail, rmFail: the close of the read handle, the close of the write
\* handle and the removal fail on I/O; completeErr: what a.appender.Complete() returns.
Clear(rcFail, acFail, completeErr, rmFail) ==
    /\ phase = "live"
    /\ UNCHANGED <<phase, meta, onceDone, appender, iter, written, replayed, readerVars>>
    /\ LET name == fullFilename(meta)
           closeReadErr == IF readFile # 0 THEN CloseErr(readFile, rcFail) ELSE Nil
           closeAppendErr == IF appendFile # 0 THEN CloseErr(appendFile, acFail) ELSE Nil
           removeErr == RemoveErr(name, rmFail)
       IN  /\ handles' = Closed(Closed(handles, readFile), appendFile)
           /\ readFile' = 0
           /\ appendFile' = 0
           /\ disk' = IF removeErr = Nil THEN Removed(disk, name) ELSE disk
           /\ res' = [op |-> "Clear",
                      err |-> ClearReturn(closeReadErr, closeAppendErr, completeErr, removeErr),
                      closeReadErr |-> closeReadErr, closeAppendErr |-> closeAppendErr,
                      completeErr |-> completeErr, removeErr |-> removeErr,
                      existed |-> Exists(name), rmFail |-> rmFail]

(***************************************************************************)
(* The data files a restarted process may find.                            *)
(***************************************************************************)
U1 == UUIDString(1)

\* The file names newAppendBlockFromFile is called with.
ReplayNames ==
    {JoinColon(<<U1, <<"t">>>>),
     JoinColon(<<U1, <<"t">>, V2, <<"none">>>>),
     JoinColon(<<U1, <<"t">>, V2, <<"snappy">>, <<"a">>>>),
     JoinColon(<<U1, <<"t">>, V2, <<"none">>, Rep("a", maxDataEncodingLength + 1)>>),
     JoinColon(<<U1, <<"t">>, V0, <<"snappy">>>>),
     JoinColon(<<U1, <<"t">>, <<"v9">>, <<"none">>>>),
     JoinColon(<<<<"x">>, <<"t">>, V2, <<"none">>>>),
     JoinColon(<<U1, <<"t">>, V2>>),
     JoinColon(<<U1, <<>>, V2, <<"none">>>>),
     JoinColon(<<U1, <<"t">>, V2, <<"bogus">>>>)}

\* The pages of such a file: a page of one object, a page of two objects, a page whose
\* object is followed by bytes that decode as no object, a page that decodes as no object.
PageChoices ==
    {Page(<<Object(id, Payload(1))>>, 0) : id \in IDs}
    \cup {Page(<<Object(<<1>>, Payload(1)), Object(<<2>>, Payload(2))>>, 0),
          Page(<<Object(<<2>>, Payload(2))>>, 3),
          Page(<<>>, 5)}

RECURSIVE SeqsUpTo(_, _)
SeqsUpTo(S, n) ==
    IF n = 0 THEN {<<>>}
    ELSE LET shorter == SeqsUpTo(S, n - 1) IN
         shorter \cup {Append(s, x) : s \in {t \in shorter : Len(t) = n - 1}, x \in S}

\* The files: up to MaxPages pages, cut or not in the middle of one more page.
Contents == {File(ps, tail) : ps \in SeqsUpTo(PageChoices, MaxPages), tail \in {0, 3}}

\* The disk of a fresh directory, or one file: any contents under a well-formed name, or
\* one page under any of the names.
GoodName == JoinColon(<<U1, <<"t">>, V2, <<"none">>>>)
OnePage == File(<<Page(<<Object(<<2>>, Payload(1))>>, 0)>>, 0)

InitialDisks ==
    {EmptyDisk} \cup {(GoodName :> c) : c \in Contents} \cup {(n :> OnePage) : n \in ReplayNames}

(***************************************************************************)
(* The block's life, its calls made one at a time.                         *)
(***************************************************************************)
Init ==
    /\ disk \in InitialDisks
    /\ handles = <<>>
    /\ phase = "init"
    /\ meta = NoMeta
    /\ appendFile = 0
    /\ readFile = 0
    /\ onceDone = FALSE
    /\ appender = NoAppender
    /\ iter = NoIter
    /\ res = NoRes
    /\ written = <<>>
    /\ replayed = EmptyFile
    /\ onceM = 0
    /\ pc = [r \in Readers |-> "idle"]
    /\ ret = [r \in Readers |-> NoRet]

Next ==
    \/ \E args \in NewArgs, dwFail \in BOOLEAN :
          NewAppendBlock(1, args[1], args[2], args[3], dwFail)
    \/ \E filename \in DOMAIN disk, drFail \in BOOLEAN :
          NewAppendBlockFromFile(filename, drFail)
    \/ \E id \in IDs, ioFail \in BOOLEAN : Write(id, ioFail)
    \/ \E closeFail \in BOOLEAN, drFail \in BOOLEAN : GetIterator(closeFail, drFail)
    \/ IterNext
    \/ \E id \in IDs, drFail \in BOOLEAN : Find(id, drFail)
    \/ \E rcFail \in BOOLEAN, acFail \in BOOLEAN, completeErr \in {Nil, ErrIO},
          rmFail \in BOOLEAN : Clear(rcFail, acFail, completeErr, rmFail)

Spec == Init /\ [][Next]_vars

(***************************************************************************)
(* parseFilename on its own, applied to names joined from fields.          *)
(***************************************************************************)
UUIDFields == {U1, UUIDString(2), <<"x">>, <<>>}
TenantFields == {<<"t">>, <<>>}
VersionFields == {V2, V0, <<"v9">>, <<>>}
EncodingFields == {<<"none">>, <<"snappy">>, <<"bogus">>, <<>>}
DataEncodingFields == {<<>>, <<"a">>, Rep("a", maxDataEncodingLength + 1)}

\* The fields of the names: one to six fields, none holding a ":".
FieldTuples ==
    {<<u>> : u \in UUIDFields}
    \cup {<<u, t>> : u \in UUIDFields, t \in TenantFields}
    \cup {<<u, t, v>> : u \in UUIDFields, t \in TenantFields, v \in VersionFields}
    \cup {<<u, t, v, e>> : u \in UUIDFields, t \in TenantFields, v \in VersionFields,
                           e \in EncodingFields}
    \cup {<<u, t, v, e, d>> : u \in UUIDFields, t \in TenantFields, v \in VersionFields,
                              e \in EncodingFields, d \in DataEncodingFields}
    \cup {<<u, t, v, e, d, <<"z">>>> : u \in {U1}, t \in {<<"t">>}, v \in {V2},
                                       e \in {<<"none">>}, d \in DataEncodingFields}

\* parseFilename(name), name the fields joined by ":".
ParseFilenameCall(fields) ==
    /\ res' = [op |-> "parseFilename", fields |-> fields,
               out |-> parseFilename(JoinColon(fields))]
    /\ UNCHANGED <<disk, handles, blockVars, iter, written, replayed, readerVars>>

InitName ==
    /\ disk = EmptyDisk
    /\ handles = <<>>
    /\ phase = "init"
    /\ meta = NoMeta
    /\ appendFile = 0
    /\ readFile = 0
    /\ onceDone = FALSE
    /\ appender = NoAppender
    /\ iter = NoIter
    /\ res = NoRes
    /\ written = <<>>
    /\ replayed = EmptyFile
    /\ onceM = 0
    /\ pc = [r \in Readers |-> "idle"]
    /\ ret = [r \in Readers |-> NoRet]

NextName == \E fields \in FieldTuples : ParseFilenameCall(fields)

SpecName == InitName /\ [][NextName]_vars

(***************************************************************************)
(* Properties of the replay.                                               *)
(***************************************************************************)
\* A page as Write makes them: one object, nothing after it.
ValidPage(p) == Len(p.objs) = 1 /\ p.junk = 0

\* The number of valid pages a file begins with.
RECURSIVE LeadingValid(_)
LeadingValid(pages) ==
    IF pages = <<>> \/ ~ValidPage(Head(pages)) THEN 0 ELSE 1 + LeadingValid(Tail(pages))

\* The records of the first n pages of a file, as a set.
PageRecords(f, n) ==
    {Record(f.pages[k].objs[1].id, OffsetOf(f, k), PageLen(f.pages[k])) : k \in 1..n}

SeqSet(q) == {q[i] : i \in 1..Len(q)}

Walked == res.op = "newAppendBlockFromFile" /\ res.stage = "walk"

\* The index holds one record for each of the first n pages of the replayed file, no other.
IndexIsLeading(n) ==
    /\ Len(appender.records) = n
    /\ SeqSet(appender.records) = PageRecords(replayed, n)

\* A file of complete valid pages followed by a page cut in its middle.
TruncatedMidPage(f) == f.tail > 0 /\ LeadingValid(f.pages) = Len(f.pages)

\* C1: the replay of a data file that holds n complete valid pages followed by a page
\* truncated mid-page returns a block and a nil fatal error, an index of exactly n
\* records, one for each complete page, and a non-nil warning.
C1_ReplayTolerance ==
    (Walked /\ TruncatedMidPage(replayed)) =>
        /\ res.err = Nil
        /\ res.block
        /\ phase = "live"
        /\ res.warning # Nil
        /\ IndexIsLeading(Len(replayed.pages))

C1_Witness ==
    /\ Walked
    /\ TruncatedMidPage(replayed)
    /\ Len(replayed.pages) = 2
    /\ BytesLess(replayed.pages[2].objs[1].id, replayed.pages[1].objs[1].id)

\* The first page of the replayed file that is not valid holds more than one object: its
\* first object decodes and the decoding of a second does not yield the end of the stream.
StopsAtMultiObjectPage ==
    LET k == LeadingValid(replayed.pages) + 1 IN
    /\ k <= Len(replayed.pages)
    /\ Len(replayed.pages[k].objs) >= 1
    /\ UnmarshalObjectFromReader(replayed.pages[k], 2).err # EOF

\* C8: when the replay meets a page that holds more than one object, the walk stops at
\* it, the page is not in the index, the records of the earlier pages are kept, and a
\* non-nil warning is returned with the block.
C8_MultiObjectPageWarns ==
    (Walked /\ StopsAtMultiObjectPage) =>
        /\ res.block
        /\ IndexIsLeading(LeadingValid(replayed.pages))
        /\ res.warning # Nil

\* C7 as stated: a fatal error only when the file name does not parse or the data file
\* does not open (the making of the data reader over the file counted with the opening),
\* then with no block; otherwise a block and a nil fatal error.
C7_FatalOnlyParseOrOpen ==
    res.op = "newAppendBlockFromFile" =>
        /\ res.err # Nil <=> res.stage \in {"parse", "open", "reader"}
        /\ res.block <=> res.err = Nil

\* C7, amended: a fatal error exactly when the file name does not parse, its version has
\* no encoding, the data file does not open or the data reader cannot be made, then with
\* no block; otherwise a block and a nil fatal error, whatever the pages hold.
C7_FatalCauses ==
    res.op = "newAppendBlockFromFile" =>
        /\ res.err # Nil <=> res.stage \in {"parse", "version", "open", "reader"}
        /\ res.block <=> res.err = Nil
        /\ res.block <=> phase = "live"
        /\ res.stage = "parse" <=> parseFilename(res.arg).err # Nil

C7_Witness ==
    /\ Walked
    /\ res.err = Nil
    /\ res.block
    /\ res.warning # Nil
    /\ Len(appender.records) = 1

(***************************************************************************)
(* Properties of the file name.                                            *)
(***************************************************************************)
\* C4: the name fullFilename makes from a block's BlockMeta parses, without an error, to
\* the tenant id, block id, version, encoding and data encoding of the BlockMeta.
C4_FilenameRoundTrip ==
    phase = "live" =>
        LET p == parseFilename(fullFilename(meta)) IN
        /\ p.err = Nil
        /\ p.tenantID = meta.TenantID
        /\ p.blockID = meta.BlockID
        /\ p.version = meta.Version
        /\ p.encoding = meta.Encoding
        /\ p.dataEncoding = meta.DataEncoding

\* C5: every block, created or replayed, has a data encoding of at most 32 runes without
\* a ':'; the creation accepts 32 runes, rejects 33 and rejects a ':', with no block.
C5_DataEncodingValid ==
    /\ phase = "live" =>
          /\ RuneLen(meta.DataEncoding) <= maxDataEncodingLength
          /\ ~ContainsRune(meta.DataEncoding, ":")
    /\ res.op = "newAppendBlock" =>
          /\ (RuneLen(res.arg) > maxDataEncodingLength \/ ContainsRune(res.arg, ":"))
                => (res.err # Nil /\ ~res.block /\ phase = "failed")
          /\ (RuneLen(res.arg) <= maxDataEncodingLength /\ ~ContainsRune(res.arg, ":"))
                => res.stage # "validate"

ValidUUIDField(f) == \E u \in UUIDs \cup {ZeroUUID} : f = UUIDString(u)
EncodingToken(f) == \E e \in SupportedEncodings : f = EncString(e)

\* The ways a name of these fields is malformed.
Malformed(fs) ==
    \/ Len(fs) \notin {2, 4, 5}
    \/ ~ValidUUIDField(fs[1])
    \/ fs[2] = <<>>
    \/ Len(fs) >= 4 /\ (fs[3] = <<>> \/ ~EncodingToken(fs[4]))

\* C6: parseFilename returns an error and zero values when the name has not 2, 4 or 5
\* fields, its first field is no UUID, its encoding field is no encoding token, or its
\* tenant id or version is empty; any other name parses to its fields, two fields with
\* version "v0", encoding none and no data encoding, four with no data encoding.
C6_ParseFilename ==
    res.op = "parseFilename" =>
        LET fs == res.fields
            out == res.out
        IN  IF Malformed(fs)
            THEN /\ out.err # Nil
                 /\ out = ParseError(out.err)
            ELSE /\ out.err = Nil
                 /\ UUIDString(out.blockID) = fs[1]
                 /\ out.tenantID = fs[2]
                 /\ out.version = (IF Len(fs) = 2 THEN <<"v0">> ELSE fs[3])
                 /\ EncString(out.encoding) = (IF Len(fs) = 2 THEN <<"none">> ELSE fs[4])
                 /\ out.dataEncoding = (IF Len(fs) = 5 THEN fs[5] ELSE <<>>)

C6_Witness ==
    /\ res.op = "parseFilename"
    /\ Len(res.fields) = 5
    /\ res.out.err = Nil
    /\ res.out.version = V0
    /\ res.out.encoding = "snappy"
    /\ res.out.dataEncoding = <<"a">>

(***************************************************************************)
(* Properties of the reads.                                                *)
(***************************************************************************)
\* The identifiers of a sequence of objects.
IDsOf(objs) == {objs[i].id : i \in 1..Len(objs)}

\* The identifiers of a set in ascending byte-lexicographic order.
RECURSIVE Ascending(_)
Ascending(S) ==
    IF S = {} THEN <<>>
    ELSE LET least == CHOOSE x \in S : \A y \in S \ {x} : BytesLess(x, y)
         IN  <<least>> \o Ascending(S \ {least})

\* The payloads written for id, merged in the order they were written.
RECURSIVE MergedInOrder(_, _)
MergedInOrder(objs, id) ==
    IF objs = <<>> THEN <<>>
    ELSE IF Head(objs).id = id THEN Combine(Head(objs).data, MergedInOrder(Tail(objs), id))
    ELSE MergedInOrder(Tail(objs), id)

\* What an iterator over the written objects is to yield.
ExpectedOutput(objs) ==
    LET ids == Ascending(IDsOf(objs)) IN
    [i \in 1..Len(ids) |-> Object(ids[i], MergedInOrder(objs, ids[i]))]

\* C2: after Write calls on a fresh block, draining the iterator of GetIterator yields
\* every identifier written once, in ascending byte-lexicographic order, each with the
\* payloads written for it merged in the order they were written.
C2_IteratorRoundTrip ==
    (appender.mode = "write" /\ iter.state = "done") =>
        iter.out = ExpectedOutput(written)

C2_Witness ==
    /\ appender.mode = "write"
    /\ iter.state = "done"
    /\ Len(written) = 3
    /\ written[1].id = <<2>>
    /\ written[2].id = <<1, 2>>
    /\ written[3].id = <<2>>
    /\ iter.out = <<Object(<<1, 2>>, Payload(2)), Object(<<2>>, Payload(1) \o Payload(3))>>

\* The identifiers of the complete pages of a file.
IDsInFile(f) == UNION {IDsOf(f.pages[k].objs) : k \in 1..Len(f.pages)}

\* An identifier never written to the block: by no Write that returned nil, and in no
\* page of the file the block was replayed from.
NeverWritten(id) == id \notin IDsOf(written) /\ id \notin IDsInFile(replayed)

\* C3 as stated: Find for an identifier never written returns a nil result and a nil
\* error, whatever calls came before.
C3_FindMissingNoError ==
    (res.op = "Find" /\ NeverWritten(res.id)) =>
        (res.data = <<>> /\ res.err = Nil)

\* C3, amended: Find for an identifier never written returns a nil result; its error is
\* nil, unless the call is the block's first to ask for the read handle and the data
\* file is not there to open, and then it is the error of the open.
C3_FindMissing ==
    (res.op = "Find" /\ NeverWritten(res.id)) =>
        /\ res.data = <<>>
        /\ res.err = (IF res.first /\ ~res.existed THEN ErrNotExist ELSE Nil)

C3_Witness ==
    /\ res.op = "Find"
    /\ NeverWritten(res.id)
    /\ Len(written) = 2
    /\ res.err = Nil
    /\ res.first
    /\ res.existed

(***************************************************************************)
(* Properties of Clear.                                                    *)
(***************************************************************************)
\* C10: Clear tries to delete the data file whatever closing the read handle, closing
\* the write handle and completing the Appender returned; what it returns is the error
\* of the deletion, and a deletion that did not fail leaves no data file.
C10_ClearReturnsRemoveError ==
    res.op = "Clear" =>
        /\ res.err = res.removeErr
        /\ res.removeErr = (IF ~res.existed THEN ErrNotExist
                            ELSE IF res.rmFail THEN ErrIO ELSE Nil)
        /\ res.err = Nil => ~Exists(fullFilename(meta))
        /\ readFile = 0 /\ appendFile = 0

C10_Witness ==
    /\ res.op = "Clear"
    /\ res.closeReadErr # Nil
    /\ res.closeAppendErr # Nil
    /\ res.completeErr # Nil
    /\ res.existed
    /\ res.err = Nil
    /\ ~Exists(fullFilename(meta))

(***************************************************************************)
(* Concurrent readers: Find and GetIterator called at once on one block,   *)
(* each up to the return of file().  a.once is a sync.Once: a done flag    *)
(* and a mutex.                                                            *)
(***************************************************************************)
\* A fault: a flag in the place of sync.Once, no reader waiting for another.
MutexFree_Always == TRUE

\* Whether a.once's mutex can be taken.
MutexFree == onceM = 0

\* A reader calls Find, which calls file().
StartFind(r) ==
    /\ pc[r] = "idle"
    /\ pc' = [pc EXCEPT ![r] = "once"]
    /\ UNCHANGED <<disk, handles, blockVars, iter, res, written, replayed, onceM, ret>>

\* A reader calls GetIterator: if a.appendFile != nil
StartGetIterator(r) ==
    /\ pc[r] = "idle"
    /\ pc' = [pc EXCEPT ![r] = IF appendFile # 0 THEN "close" ELSE "once"]
    /\ UNCHANGED <<disk, handles, blockVars, iter, res, written, replayed, onceM, ret>>

\* GetIterator: err := a.appendFile.Close(), and the return of the error.
CloseAppendFile(r, closeFail) ==
    /\ pc[r] = "close"
    /\ handles' = Closed(handles, appendFile)
    /\ IF CloseErr(appendFile, closeFail) # Nil
       THEN /\ pc' = [pc EXCEPT ![r] = "failed"]
            /\ ret' = [ret EXCEPT ![r].err = CloseErr(appendFile, closeFail)]
       ELSE /\ pc' = [pc EXCEPT ![r] = "setnil"]
            /\ UNCHANGED ret
    /\ UNCHANGED <<disk, blockVars, iter, res, written, replayed, onceM>>

\* GetIterator: a.appendFile = nil, then the call of file().
SetAppendFileNil(r) ==
    /\ pc[r] = "setnil"
    /\ appendFile' = 0
    /\ pc' = [pc EXCEPT ![r] = "once"]
    /\ UNCHANGED <<disk, handles, phase, meta, readFile, onceDone, appender, iter, res,
                   written, replayed, onceM, ret>>

\* once.Do: the function is not run when the flag is set.
OnceDo(r) ==
    /\ pc[r] = "once"
    /\ pc' = [pc EXCEPT ![r] = IF onceDone THEN "return" ELSE "lock"]
    /\ UNCHANGED <<disk, handles, blockVars, iter, res, written, replayed, onceM, ret>>

\* once.Do: the mutex is taken.
OnceLock(r) ==
    /\ pc[r] = "lock"
    /\ MutexFree
    /\ onceM' = r
    /\ pc' = [pc EXCEPT ![r] = "locked"]
    /\ UNCHANGED <<disk, handles, blockVars, iter, res, written, replayed, ret>>

\* once.Do: under the mutex the flag is read again, and the function called if unset.
OnceRecheck(r) ==
    /\ pc[r] = "locked"
    /\ pc' = [pc EXCEPT ![r] = IF onceDone THEN "unlock" ELSE "isnil"]
    /\ ret' = [ret EXCEPT ![r].ran = ~onceDone]
    /\ UNCHANGED <<disk, handles, blockVars, iter, res, written, replayed, onceM>>

\* The function: if a.readFile == nil
ReadFileIsNil(r) ==
    /\ pc[r] = "isnil"
    /\ pc' = [pc EXCEPT ![r] = IF readFile = 0 THEN "open" ELSE "store"]
    /\ UNCHANGED <<disk, handles, blockVars, iter, res, written, replayed, onceM, ret>>

\* The function: a.readFile, err = os.OpenFile(name, os.O_RDONLY, 0644)
OpenReadFile(r) ==
    /\ pc[r] = "open"
    /\ LET o == OpenRead(handles, 0, fullFilename(meta)) IN
       /\ handles' = o.hs
       /\ readFile' = o.rf
       /\ ret' = [ret EXCEPT ![r].err = o.err]
    /\ pc' = [pc EXCEPT ![r] = "store"]
    /\ UNCHANGED <<disk, phase, meta, appendFile, onceDone, appender, iter, res, written,
                   replayed, onceM>>

\* once.Do: the flag is set when the function has returned.
OnceStore(r) ==
    /\ pc[r] = "store"
    /\ onceDone' = TRUE
    /\ pc' = [pc EXCEPT ![r] = "unlock"]
    /\ UNCHANGED <<disk, handles, phase, meta, appendFile, readFile, appender, iter, res,
                   written, replayed, onceM, ret>>

\* once.Do: the mutex is released.
OnceUnlock(r) ==
    /\ pc[r] = "unlock"
    /\ onceM' = IF onceM = r THEN 0 ELSE onceM
    /\ pc' = [pc EXCEPT ![r] = "return"]
    /\ UNCHANGED <<disk, handles, blockVars, iter, res, written, replayed, ret>>

\* file(): return a.readFile, err
FileReturn(r) ==
    /\ pc[r] = "return"
    /\ ret' = [ret EXCEPT ![r].rf = readFile]
    /\ pc' = [pc EXCEPT ![r] = "done"]
    /\ UNCHANGED <<disk, handles, blockVars, iter, res, written, replayed, onceM>>

\* The block before its first read: as newAppendBlock made it, or after a Clear.
OnceMeta == NewBlockMeta(<<"t">>, 1, V2, "none", <<>>)

InitOnce ==
    /\ phase = "live"
    /\ meta = OnceMeta
    /\ \/ /\ disk = (fullFilename(OnceMeta) :> EmptyFile)
          /\ handles = <<[name |-> fullFilename(OnceMeta), mode |-> "w", open |-> TRUE]>>
          /\ appendFile = 1
       \/ /\ disk = EmptyDisk
          /\ handles = <<[name |-> fullFilename(OnceMeta), mode |-> "w", open |-> FALSE]>>
          /\ appendFile = 0
    /\ readFile = 0
    /\ onceDone = FALSE
    /\ appender = NewAppender(1)
    /\ iter = NoIter
    /\ res = NoRes
    /\ written = <<>>
    /\ replayed = EmptyFile
    /\ onceM = 0
    /\ pc = [r \in Readers |-> "idle"]
    /\ ret = [r \in Readers |-> NoRet]

NextOnce ==
    \E r \in Readers :
        \/ StartFind(r)
        \/ StartGetIterator(r)
        \/ \E closeFail \in BOOLEAN : CloseAppendFile(r, closeFail)
        \/ SetAppendFileNil(r)
        \/ OnceDo(r)
        \/ OnceLock(r)
        \/ OnceRecheck(r)
        \/ ReadFileIsNil(r)
        \/ OpenReadFile(r)
        \/ OnceStore(r)
        \/ OnceUnlock(r)
        \/ FileReturn(r)

SpecOnce == InitOnce /\ [][NextOnce]_vars

ReadHandles == {h \in 1..Len(handles) : handles[h].mode = "r"}

\* C9: whatever the interleaving of first-time readers, the data file is opened for
\* reading at most once, by at most one of them; no reader is past a.once before the
\* function has returned; and every reader gets the same handle from file().
C9_OpenedOnce ==
    /\ Cardinality(ReadHandles) <= 1
    /\ Cardinality({r \in Readers : ret[r].ran}) <= 1
    /\ \A r \in Readers : pc[r] \in {"return", "done"} => onceDone
    /\ \A r \in Readers : pc[r] = "done" => ret[r].rf = readFile
    /\ \A r1, r2 \in Readers :
          (pc[r1] = "done" /\ pc[r2] = "done") => ret[r1].rf = ret[r2].rf

C9_Witness ==
    /\ \A r \in Readers : pc[r] = "done"
    /\ \E r \in Readers : ~ret[r].ran
    /\ Cardinality(ReadHandles) = 1
    /\ \A r \in Readers : ret[r].rf # 0

(***************************************************************************)
(* Properties of the handles.                                              *)
(***************************************************************************)
\* C11: in any sequence of GetIterator, Find and Clear calls no handle is closed twice,
\* that is no Close is made on a handle already closed, and no call returns the error of
\* a handle already closed; a Clear issued while the data file exists returns nil, the
\* removal itself not failing; and an error Clear returns is the error of the removal.
C11_IdempotentClose ==
    /\ res.op = "GetIterator" => (res.closeErr # ErrClosed /\ res.err # ErrClosed)
    /\ res.op = "Find" => res.err # ErrClosed
    /\ res.op = "Clear" =>
          /\ res.closeReadErr # ErrClosed
          /\ res.closeAppendErr # ErrClosed
          /\ (res.existed /\ ~res.rmFail) => res.err = Nil
          /\ res.err # Nil => res.err = res.removeErr

(***************************************************************************)
(* Properties of Write.                                                    *)
(***************************************************************************)
\* The least and the greatest of a non-empty set of identifiers.
LeastID(S) == CHOOSE x \in S : \A y \in S \ {x} : BytesLess(x, y)
GreatestID(S) == CHOOSE x \in S : \A y \in S \ {x} : BytesLess(y, x)

\* C12: a Write whose Append fails returns that error and leaves the bookkeeping of the
\* BlockMeta as it was: on a block in write mode the object count is the number of Write
\* calls that returned nil, and the least and greatest identifier are those of the
\* objects these calls wrote.
C12_FailedWriteNotCounted ==
    (phase = "live" /\ appender.mode = "write") =>
        /\ res.op = "Write" => res.err = res.appendErr
        /\ meta.TotalObjects = Len(written)
        /\ meta.MinID = (IF written = <<>> THEN <<>> ELSE LeastID(IDsOf(written)))
        /\ meta.MaxID = (IF written = <<>> THEN <<>> ELSE GreatestID(IDsOf(written)))

C12_Witness ==
    /\ appender.mode = "write"
    /\ res.op = "Write"
    /\ res.err = ErrIO
    /\ IsOpen(appendFile)
    /\ Len(written) = 2
    /\ meta.TotalObjects = 2
    /\ meta.MinID = <<1, 2>>
    /\ meta.MaxID = <<2>>

\* The index the replay of a file builds.
ReplayIndex(f) == SortRecords(Walk(f, 1, 0, <<>>).records)

\* C13: on a block that newAppendBlockFromFile returned every Write returns an error,
\* and the index, the object count of the BlockMeta and the data file stay as the replay
\* left them.
C13_ReplayWriteFails ==
    (phase = "live" /\ appender.mode = "replay") =>
        /\ res.op = "Write" => res.err # Nil
        /\ written = <<>>
        /\ appender.records = ReplayIndex(replayed)
        /\ meta.TotalObjects = Len(ReplayIndex(replayed))
        /\ Exists(fullFilename(meta)) => disk[fullFilename(meta)] = replayed

C13_Witness ==
    /\ appender.mode = "replay"
    /\ res.op = "Write"
    /\ res.err = ErrUnsupported
    /\ Len(appender.records) = 2
    /\ IsOpen(readFile)
    /\ Exists(fullFilename(meta))

(***************************************************************************)
(* Find against the iterator.                                              *)
(***************************************************************************)
\* The objects the block's index records, in the order they came: those of the Write
\* calls that returned nil, or those of the pages the replay walked.
Recorded ==
    IF appender.mode = "replay"
    THEN [k \in 1..LeadingValid(replayed.pages) |-> replayed.pages[k].objs[1]]
    ELSE written

\* An iterator that reached its end yielded this payload for this identifier.
Yielded(id, data) == \E i \in 1..Len(iter.out) : iter.out[i] = Object(id, data)

\* C14 as stated: Find for an identifier the block records returns a nil error and the
\* payloads of the identifier's pages merged in the order they came, the payload a
\* drained iterator yields for the identifier (a Find whose data reader could not be
\* made is left aside).
C14_FindReturnsMerged ==
    (res.op = "Find" /\ res.id \in IDsOf(Recorded) /\ res.err # ErrIO) =>
        /\ res.err = Nil
        /\ res.data = MergedInOrder(Recorded, res.id)
        /\ iter.state = "done" => Yielded(res.id, res.data)

\* C14, amended: on a block on which Clear was not called, Find for an identifier the
\* block records returns the error of making the data reader and a nil result, or a nil
\* error and the payloads of the identifier's pages merged in the order they came, the
\* payload a drained iterator yields for the identifier.
C14_FindMatchesIterator ==
    (res.op = "Find" /\ res.id \in IDsOf(Recorded) /\ ~res.cleared) =>
        IF res.err # Nil
        THEN res.err = ErrIO /\ res.data = <<>>
        ELSE /\ res.data = MergedInOrder(Recorded, res.id)
             /\ res.n = Cardinality({i \in 1..Len(Recorded) : Recorded[i].id = res.id})
             /\ iter.state = "done" => Yielded(res.id, res.data)

C14_Witness ==
    /\ res.op = "Find"
    /\ ~res.cleared
    /\ res.err = Nil
    /\ Len(written) = 3
    /\ res.id = <<2>>
    /\ res.n = 2
    /\ res.data = Payload(1) \o Payload(3)
    /\ iter.state = "done"
    /\ Len(iter.out) = 2

(***************************************************************************)
(* The index the replay builds.                                            *)
(***************************************************************************)
\* The end of a record's range.
EndOf(r) == r.Start + r.Length

\* C15: after a replay the index as stored is sorted ascending by identifier, and its
\* records in the order of their start offsets tile the walked pages of the file: one
\* starts at offset 0, every other starts where another ends, no two ranges overlap, and
\* the last ends where the walked pages end.
C15_IndexTilesFile ==
    Walked =>
        LET rs == appender.records
            n == Len(rs)
        IN  /\ \A i \in 1..(n - 1) : ~BytesLess(rs[i + 1].ID, rs[i].ID)
            /\ n > 0 => \E i \in 1..n : rs[i].Start = 0
            /\ \A i \in 1..n : rs[i].Start = 0 \/ \E j \in 1..n : EndOf(rs[j]) = rs[i].Start
            /\ \A i, j \in 1..n :
                  i # j => (EndOf(rs[i]) <= rs[j].Start \/ EndOf(rs[j]) <= rs[i].Start)
            /\ \A i \in 1..n : EndOf(rs[i]) <= OffsetOf(replayed, n + 1)
            /\ n > 0 => \E i \in 1..n : EndOf(rs[i]) = OffsetOf(replayed, n + 1)

C15_Witness ==
    /\ Walked
    /\ Len(appender.records) = 2
    /\ appender.records[1].Start > 0
    /\ appender.records[2].Start = 0
    /\ res.warning # Nil

\* C16: the BlockMeta of a block newAppendBlockFromFile returns, with a warning or
\* without, counts as many objects as the index has records: the number of pages walked
\* before the end of the stream or the first page that does not decode.
C16_ReplayObjectCount ==
    Walked =>
        /\ meta.TotalObjects = Len(appender.records)
        /\ meta.TotalObjects = LeadingValid(replayed.pages)

C16_Witness ==
    /\ Walked
    /\ res.block
    /\ res.warning # Nil
    /\ Len(replayed.pages) = 2
    /\ meta.TotalObjects = 1

(***************************************************************************)
(* The read handle file() returns, and the handles left open.              *)
(***************************************************************************)
\* a.once has run and the process never got a handle for reading: the open failed.
OpenFailed == onceDone /\ ReadHandles = {}

\* The call asked file() for the read handle to read pages through it.
NeedsReadHandle == res.called /\ (res.op = "Find" => res.n > 0)

\* C17: when the open of the data file for reading has failed, every Find and
\* GetIterator call that needs the read handle, the first and the later ones, gets an
\* error from file() and returns it: none goes on with no handle and no error.
C17_OpenFailureSurfaced ==
    (res.op \in {"Find", "GetIterator"} /\ NeedsReadHandle /\ OpenFailed) =>
        /\ res.fileErr # Nil
        /\ res.err = res.fileErr

OpenHandles == {h \in 1..Len(handles) : handles[h].open}

\* C18: when newAppendBlock or newAppendBlockFromFile returns an error no handle is left
\* open, and after Clear the block holds no handle and none is left open.
C18_HandlesReleased ==
    /\ (res.op \in {"newAppendBlock", "newAppendBlockFromFile"} /\ res.err # Nil) =>
          OpenHandles = {}
    /\ res.op = "Clear" => (OpenHandles = {} /\ readFile = 0 /\ appendFile = 0)

\* C19: whenever file() returns a nil error to Find or GetIterator, the handle it
\* returns is not nil and is open.
C19_FileHandleUsable ==
    (res.op \in {"Find", "GetIterator"} /\ res.called /\ res.fileErr = Nil) =>
        (res.rf # 0 /\ IsOpen(res.rf))

(***************************************************************************)
(* kv/memberlist/broadcast.go: ringBroadcast.Invalidates, on its own.      *)
(***************************************************************************)
MaxContent == 2
MaxVersion == 2

BroadcastKeys == {"ring", "other-ring"}
IngesterNames == {"a", "b"}

\* A ringBroadcast: its key, its content, its version (msg, finished and logger play
\* no part in Invalidates).
ringBroadcast(key, content, version) ==
    [type |-> "ringBroadcast", key |-> key, content |-> content, version |-> version]

RingBroadcasts ==
    {ringBroadcast(k, c, v) :
        k \in BroadcastKeys, c \in SeqsUpTo(IngesterNames, MaxContent), v \in 0..MaxVersion}

\* A memberlist.Broadcast of another type.
OtherBroadcast == [type |-> "other"]

\* The inner loop: whether oldName is one of the names of content.
RECURSIVE Found(_, _)
Found(oldName, content) ==
    IF content = <<>> THEN FALSE
    ELSE IF oldName = Head(content) THEN TRUE
    ELSE Found(oldName, Tail(content))

\* The outer loop: whether no name of oldContent is missing from content.
RECURSIVE AllFound(_, _)
AllFound(oldContent, content) ==
    IF oldContent = <<>> THEN TRUE
    ELSE IF ~Found(Head(oldContent), content) THEN FALSE
    ELSE AllFound(Tail(oldContent), content)

\* A fault: only a strictly newer version invalidates.
VersionInvalidates_Newer(version, oldVersion) == version > oldVersion

\* The check of the versions.
VersionInvalidates(version, oldVersion) == version >= oldVersion

\* r.Invalidates(old)
Invalidates(r, old) ==
    IF old.type = "ringBroadcast"
    THEN IF r.key # old.key THEN FALSE
         ELSE IF ~AllFound(old.content, r.content) THEN FALSE
         ELSE IF VersionInvalidates(r.version, old.version) THEN TRUE
         ELSE FALSE
    ELSE FALSE

\* A call of r.Invalidates(old).  Invalidates reads its receiver and its argument and
\* writes nothing, so a call is taken from the initial state alone.
InvalidatesCall(r, old) ==
    /\ res = NoRes
    /\ res' = [op |-> "Invalidates", r |-> r, old |-> old, out |-> Invalidates(r, old)]
    /\ UNCHANGED <<disk, handles, blockVars, iter, written, replayed, readerVars>>

InitRing == InitName

NextRing ==
    \E r \in RingBroadcasts, old \in RingBroadcasts \cup {OtherBroadcast} :
        InvalidatesCall(r, old)

SpecRing == InitRing /\ [][NextRing]_vars

\* C20: r.Invalidates(old) is true exactly when old is a ringBroadcast of r's key, every
\* name of old's content is a name of r's content, and r's version is at least old's;
\* so it is false when old covers a name r does not cover, when the keys differ, and
\* when old's version is greater.
C20_Invalidates ==
    res.op = "Invalidates" =>
        LET r == res.r
            old == res.old
        IN  /\ res.out <=>
                  /\ old.type = "ringBroadcast"
                  /\ old.key = r.key
                  /\ SeqSet(old.content) \subseteq SeqSet(r.content)
                  /\ r.version >= old.version
            /\ old.type = "ringBroadcast" =>
                  /\ (SeqSet(old.content) \ SeqSet(r.content) # {}) => ~res.out
                  /\ old.key # r.key => ~res.out
                  /\ old.version > r.version => ~res.out

C20_Witness ==
    /\ res.op = "Invalidates"
    /\ res.out
    /\ res.old.content = <<"a", "a">>
    /\ res.r.content = <<"b", "a">>
    /\ res.r.version = res.old.version
    /\ res.r.version > 0
====
